---- MODULE Spec2Model ----
(***************************************************************************)
(* Model of marveltoolbox: BaseTrainer (trainer.py) with the checkpoint    *)
(* I/O and one_hot_encode of utils/utils.py.                               *)
(*                                                                         *)
(* Three specifications share the variables:                               *)
(*   Spec        the epoch / checkpoint state machine of BaseTrainer       *)
(*   SpecLoaders BaseTrainer.preprocessing over the dataset registries     *)
(*   SpecOneHot  utils.one_hot_encode over bounded label arrays            *)
(***************************************************************************)
EXTENDS Integers, Sequences, FiniteSets, TLC

VARIABLES
    \* ---- BaseTrainer fields
    epochs,        \* self.epochs (configuration)
    start_epoch,   \* self.start_epoch, the epoch counter
    records,       \* self.records
    optimizers,    \* self.optimizers : name -> optimizer state
    models,        \* self.models     : name -> (parameter key -> value)
    schedulers,    \* self.schedulers : name -> scheduler state
    logger,        \* self.logger is not None
    \* ---- the checkpoint directory: file kind ("latest"/"best") -> record
    files,
    \* ---- position inside run()/main() and its locals
    pc,            \* "idle" or the statement of main about to execute
    args,          \* load_best / retrain / del_logger of the current call
    epoch,         \* loop variable of `for epoch in range(...)`
    range_stop,    \* stop value of the range object built at loop entry
    is_best,       \* local is_best of main
    \* ---- observation (history) variables
    nops,          \* number of top-level calls made so far
    log,           \* events of the current / most recent run() call
    call,          \* facts about the current / most recent run() call
    prev,          \* facts about the run() call just before it
    lastLoad,      \* the most recent load(), while the Trainer is untouched
    lastOp,        \* the most recent top-level call
    lastSaved,     \* record assembled by the most recent save
    lastBestSaved, \* record assembled by the most recent save(is_best=True)
    \* ---- preprocessing
    cuda,          \* torch.cuda.is_available()
    datasets, train_sets, eval_sets,   \* the registered keys of each registry
    dataloaders,   \* self.dataloaders : key -> loader
    nprep,         \* number of preprocessing() calls made so far
    prepared,      \* no registry changed since the last preprocessing()
    \* ---- one_hot_encode
    labels, n_labels, y

trainerVars == <<epochs, start_epoch, records, optimizers, models, schedulers,
                 logger, files, pc, args, epoch, range_stop, is_best>>
histVars    == <<nops, log, call, prev, lastLoad, lastOp, lastSaved, lastBestSaved>>
loaderVars  == <<cuda, datasets, train_sets, eval_sets, dataloaders, nprep, prepared>>
oneHotVars  == <<labels, n_labels, y>>
vars        == <<trainerVars, histVars, loaderVars, oneHotVars>>

(***************************************************************************)
(* Bounds                                                                  *)
(***************************************************************************)
MaxEpochs == 2      \* confs.epochs ranges over 0..MaxEpochs
MaxOps    == 3      \* top-level calls (run / save / load) per behaviour
MaxLen    == 3      \* one_hot_encode: longest label array
MaxLabel  == 2      \* one_hot_encode: labels range over -1..MaxLabel
MaxPrep   == 2      \* preprocessing() calls per behaviour

Empty == [x \in {} |-> 0]

(***************************************************************************)
(* The registries of the Trainer under study.  A subclass fills them in    *)
(* its constructor; the keys of a dict iterate in insertion order.         *)
(***************************************************************************)
optimizer_names == <<"opt">>
model_names     == <<"net">>
scheduler_names == <<"sch">>
ParamKeys       == {"w", "b"}

Range(s) == {s[i] : i \in DOMAIN s}

\* The whole restorable state of the Trainer.
TState == [epoch |-> start_epoch, records |-> records, optim |-> optimizers,
           model |-> models, scheduler |-> schedulers]

(***************************************************************************)
(* utils.save_checkpoint / utils.load_checkpoint                           *)
(***************************************************************************)
WriteFile(fs, name, content) ==
    [f \in (DOMAIN fs) \cup {name} |-> IF f = name THEN content ELSE fs[f]]

\* faulty variant: a best record is written to the "best" file only
save_checkpoint_best_only(fs, state_dict, best) ==
    IF best THEN WriteFile(fs, "best", state_dict)
    ELSE WriteFile(fs, "latest", state_dict)

\* faulty variant: the copy to "best" is made whatever is_best says
save_checkpoint_always_best(fs, state_dict, best) ==
    WriteFile(WriteFile(fs, "latest", state_dict), "best", state_dict)

save_checkpoint(fs, state_dict, best) ==
    LET written == WriteFile(fs, "latest", state_dict)
    IN  IF best THEN WriteFile(written, "best", written["latest"]) ELSE written

checkpoint_file(best) == IF best THEN "best" ELSE "latest"

\* faulty variant: falls back to the other file when the requested one is absent
load_checkpoint_fallback(fs, best) ==
    IF checkpoint_file(best) \in DOMAIN fs
    THEN [found |-> TRUE, ckpt |-> fs[checkpoint_file(best)]]
    ELSE IF checkpoint_file(~best) \in DOMAIN fs
         THEN [found |-> TRUE, ckpt |-> fs[checkpoint_file(~best)]]
         ELSE [found |-> FALSE, ckpt |-> Empty]

\* found = FALSE is the `checkpoint = None` result
load_checkpoint(fs, best) ==
    IF checkpoint_file(best) \in DOMAIN fs
    THEN [found |-> TRUE, ckpt |-> fs[checkpoint_file(best)]]
    ELSE [found |-> FALSE, ckpt |-> Empty]

(***************************************************************************)
(* BaseTrainer.save                                                        *)
(***************************************************************************)
\* faulty variant: the epoch counter is stored as it is
state_dict_no_increment ==
    [epoch     |-> start_epoch,
     records   |-> records,
     optim     |-> [n \in DOMAIN optimizers |-> optimizers[n]],
     model     |-> [n \in DOMAIN models |-> models[n]],
     scheduler |-> [n \in DOMAIN schedulers |-> schedulers[n]]]

state_dict ==
    [epoch     |-> start_epoch + 1,
     records   |-> records,
     optim     |-> [n \in DOMAIN optimizers |-> optimizers[n]],
     model     |-> [n \in DOMAIN models |-> models[n]],
     scheduler |-> [n \in DOMAIN schedulers |-> schedulers[n]]]

save(best) == save_checkpoint(files, state_dict, best)

(***************************************************************************)
(* BaseTrainer.load                                                        *)
(***************************************************************************)
\* torch.nn.Module.load_state_dict(sd, strict=False): keys of both sides are
\* copied, a key the checkpoint lacks keeps its value, an extra key is ignored.
load_state_dict_tolerant(cur, sd) ==
    [k \in DOMAIN cur |-> IF k \in DOMAIN sd THEN sd[k] ELSE cur[k]]

\* Optimizer / scheduler load_state_dict: the state is replaced.
load_state_dict_replace(cur, sd) == sd

\* `for name in registry.keys(): registry[name].load_state_dict(entries[name])`
\* entries[name] is a dict subscript: a missing name raises KeyError and the
\* names before it stay loaded.
RECURSIVE LoadEach(_, _, _, _)
LoadEach(order, cur, entries, tolerant) ==
    IF order = <<>> THEN [st |-> cur, raised |-> FALSE]
    ELSE LET n == Head(order)
         IN  IF n \notin DOMAIN entries THEN [st |-> cur, raised |-> TRUE]
             ELSE LoadEach(Tail(order),
                           [cur EXCEPT ![n] =
                               IF tolerant
                               THEN load_state_dict_tolerant(cur[n], entries[n])
                               ELSE load_state_dict_replace(cur[n], entries[n])],
                           entries, tolerant)

\* faulty variant: a registered model the checkpoint has no entry for is skipped
RECURSIVE LoadModelsSkipping(_, _, _)
LoadModelsSkipping(order, cur, entries) ==
    IF order = <<>> THEN [st |-> cur, raised |-> FALSE]
    ELSE LET n == Head(order)
         IN  IF n \notin DOMAIN entries
             THEN LoadModelsSkipping(Tail(order), cur, entries)
             ELSE LoadModelsSkipping(Tail(order),
                      [cur EXCEPT ![n] = load_state_dict_tolerant(cur[n], entries[n])],
                      entries)

LoadModels(order, cur, entries) == LoadEach(order, cur, entries, TRUE)

\* The Trainer state after load(best) on state t, and whether it raised.
load(t, fs, best) ==
    LET got == load_checkpoint(fs, best)
        c   == got.ckpt
    IN  IF ~got.found THEN [st |-> t, raised |-> FALSE]
        ELSE
        LET t1 == [t EXCEPT !.epoch = c.epoch, !.records = c.records]
            o  == LoadEach(optimizer_names, t.optim, c.optim, FALSE)
            t2 == [t1 EXCEPT !.optim = o.st]
            m  == LoadModels(model_names, t.model, c.model)
            t3 == [t2 EXCEPT !.model = m.st]
            s  == LoadEach(scheduler_names, t.scheduler, c.scheduler, FALSE)
            t4 == [t3 EXCEPT !.scheduler = s.st]
        IN  IF o.raised THEN [st |-> t2, raised |-> TRUE]
            ELSE IF m.raised THEN [st |-> t3, raised |-> TRUE]
            ELSE [st |-> t4, raised |-> s.raised]

(***************************************************************************)
(* The hooks.  BaseTrainer's own train / evaluate / scheduler_step do      *)
(* nothing; the model is of a subclass whose train writes the weights and  *)
(* the optimizer state, whose evaluate records the best epoch, and whose   *)
(* scheduler_step advances every scheduler.  Either of train and evaluate  *)
(* may raise.                                                              *)
(***************************************************************************)
train_models(e)     == [n \in DOMAIN models |-> [k \in DOMAIN models[n] |-> e + 1]]
train_optimizers(e) == [n \in DOMAIN optimizers |-> e + 1]
evaluate_records(e, result) == IF result THEN [best |-> e] ELSE records
scheduler_step      == [n \in DOMAIN schedulers |-> schedulers[n] + 1]

(***************************************************************************)
(* Pieces of BaseTrainer.main                                              *)
(***************************************************************************)
\* `i in range(start, stop)` for the next index the iterator would yield
\* (faulty variant: the stop value is included)
in_range_inclusive(i, stop) == i <= stop

in_range(i, stop) == i < stop

\* self.start_epoch += 1
\* (faulty variant: the counter advances by two)
increment_by_two(e) == e + 2

increment(e) == e + 1

\* the statement after `p` inside the loop body
\* (faulty variant: the counter is incremented before the save)
body_next_increment_first(p) ==
    CASE p = "train"    -> "evaluate"
      [] p = "evaluate" -> "incr"
      [] p = "incr"     -> "save"
      [] p = "save"     -> "sched"

body_next(p) ==
    CASE p = "train"    -> "evaluate"
      [] p = "evaluate" -> "save"
      [] p = "save"     -> "incr"
      [] p = "incr"     -> "sched"

(***************************************************************************)
(* History records                                                         *)
(***************************************************************************)
NoCall == [valid |-> FALSE, lb |-> FALSE, rt |-> FALSE,
           fromEmpty |-> FALSE, filesAtStart |-> Empty, loadTried |-> FALSE,
           loopStart |-> -1, loopDone |-> FALSE, raised |-> FALSE,
           raisedAt |-> -1, lastTrue |-> -1, finished |-> FALSE]

NoLoad == [valid |-> FALSE, b |-> FALSE, found |-> FALSE, ckpt |-> Empty,
           before |-> Empty, raised |-> FALSE]

\* a top-level call: sv says that it is a save, or a load that follows a save
\* with only loads in between; sb, e, r are then that save's flag and the epoch
\* counter and records it was called with
Op(op, b, sv, sb, e, r) == [op |-> op, b |-> b, sv |-> sv, sb |-> sb, e |-> e, r |-> r]

NoOp == Op("none", FALSE, FALSE, FALSE, 0, Empty)

NoSave == [valid |-> FALSE, sd |-> Empty]

\* what a file holds, for the log (-1 / the empty mapping when it is absent)
FileEpoch(fs, name) == IF name \in DOMAIN fs THEN fs[name].epoch ELSE -1
FileSchedulers(fs, name) == IF name \in DOMAIN fs THEN fs[name].scheduler ELSE Empty

Ev(op, i, flag, ep, sch) == [op |-> op, i |-> i, flag |-> flag, ep |-> ep, sch |-> sch]

LoadRecord(best, res) ==
    [valid |-> TRUE, b |-> best, found |-> checkpoint_file(best) \in DOMAIN files,
     ckpt |-> IF checkpoint_file(best) \in DOMAIN files
              THEN files[checkpoint_file(best)] ELSE Empty,
     before |-> TState, raised |-> res.raised]

\* assign the Trainer fields from a state record
Restore(t) ==
    /\ start_epoch' = t.epoch
    /\ records' = t.records
    /\ optimizers' = t.optim
    /\ models' = t.model
    /\ schedulers' = t.scheduler

\* the parameters of main outside a call (its defaults)
NoArgs == [load_best |-> FALSE, retrain |-> FALSE, del_logger |-> TRUE]

\* main returns or unwinds: its parameters and locals are gone
Return ==
    /\ pc' = "idle"
    /\ args' = NoArgs
    /\ epoch' = 0
    /\ range_stop' = 0
    /\ is_best' = FALSE

\* run()'s `except Exception`: the traceback is printed and logged, run returns
Caught(at) ==
    /\ Return
    /\ call' = [call EXCEPT !.raised = TRUE, !.raisedAt = at, !.finished = TRUE]

(***************************************************************************)
(* Checkpoints a previous process may have left under the same path and    *)
(* flag; its Trainer may have registered other names or parameter keys.    *)
(***************************************************************************)
PriorCheckpoint(e, o, m, s) ==
    [epoch |-> e, records |-> [best |-> 0], optim |-> o, model |-> m, scheduler |-> s]

PriorCheckpoints ==
    {PriorCheckpoint(1, [opt |-> 9], [net |-> [w |-> 9, b |-> 9]], [sch |-> 9])}

\* a registered optimizer, model or scheduler name is missing; parameter keys
\* and names differ
MismatchedCheckpoints ==
    {PriorCheckpoint(1, Empty, [net |-> [w |-> 9, b |-> 9]], [sch |-> 9]),
     PriorCheckpoint(1, [opt |-> 9], Empty, [sch |-> 9]),
     PriorCheckpoint(1, [opt |-> 9], [net |-> [w |-> 9, b |-> 9]], Empty),
     PriorCheckpoint(1, [opt |-> 9, old |-> 9],
                     [net |-> [w |-> 9, c |-> 9], old |-> [w |-> 9]],
                     [sch |-> 9, old |-> 9])}

PriorFiles ==
    {Empty} \cup {[f \in {"latest"} |-> c] : c \in PriorCheckpoints}
            \cup {[f \in {"latest", "best"} |-> c] :
                     c \in PriorCheckpoints \cup MismatchedCheckpoints}

(***************************************************************************)
(* Initial states                                                          *)
(***************************************************************************)
InitTrainerFields ==
    /\ start_epoch = 0
    /\ records = Empty
    /\ optimizers = [n \in Range(optimizer_names) |-> 0]
    /\ models = [n \in Range(model_names) |-> [k \in ParamKeys |-> 0]]
    /\ schedulers = [n \in Range(scheduler_names) |-> 0]
    /\ logger = FALSE
    /\ pc = "idle"
    /\ args = NoArgs
    /\ epoch = 0
    /\ range_stop = 0
    /\ is_best = FALSE

InitHist ==
    /\ nops = 0
    /\ log = <<>>
    /\ call = NoCall
    /\ prev = NoCall
    /\ lastLoad = NoLoad
    /\ lastOp = NoOp
    /\ lastSaved = IF "latest" \in DOMAIN files
                   THEN [valid |-> TRUE, sd |-> files["latest"]] ELSE NoSave
    /\ lastBestSaved = IF "best" \in DOMAIN files
                       THEN [valid |-> TRUE, sd |-> files["best"]] ELSE NoSave

InitLoadersIdle ==
    /\ cuda = FALSE
    /\ datasets = {}
    /\ train_sets = {}
    /\ eval_sets = {}
    /\ dataloaders = Empty
    /\ nprep = 0
    /\ prepared = FALSE

InitOneHotIdle ==
    /\ labels = <<>>
    /\ n_labels = 0
    /\ y = [status |-> "unset", rows |-> <<>>]

Init ==
    /\ epochs \in 0..MaxEpochs
    /\ files \in PriorFiles
    /\ InitTrainerFields
    /\ InitHist
    /\ InitLoadersIdle
    /\ InitOneHotIdle

(***************************************************************************)
(* Top-level calls on an idle Trainer                                      *)
(***************************************************************************)
\* save(is_best=b) called directly
Save(b) ==
    /\ pc = "idle"
    /\ nops < MaxOps
    /\ files' = save(b)
    /\ lastSaved' = [valid |-> TRUE, sd |-> state_dict]
    /\ lastBestSaved' = IF b THEN [valid |-> TRUE, sd |-> state_dict] ELSE lastBestSaved
    /\ nops' = nops + 1
    /\ lastOp' = Op("save", b, TRUE, b, start_epoch, records)
    /\ UNCHANGED <<epochs, start_epoch, records, optimizers, models, schedulers,
                   logger, pc, args, epoch, range_stop, is_best>>
    /\ UNCHANGED <<log, call, prev, lastLoad>>
    /\ UNCHANGED <<loaderVars, oneHotVars>>

\* load(is_best=b) called directly; an exception reaches the caller
Load(b) ==
    /\ pc = "idle"
    /\ nops < MaxOps
    /\ LET res == load(TState, files, b)
       IN  /\ Restore(res.st)
           /\ lastLoad' = LoadRecord(b, res)
    /\ nops' = nops + 1
    /\ lastOp' = IF lastOp.op \in {"save", "load"} /\ lastOp.sv
                  THEN Op("load", b, TRUE, lastOp.sb, lastOp.e, lastOp.r)
                  ELSE Op("load", b, FALSE, FALSE, 0, Empty)
    /\ UNCHANGED <<epochs, logger, files, pc, args, epoch, range_stop, is_best>>
    /\ UNCHANGED <<log, call, prev, lastSaved, lastBestSaved>>
    /\ UNCHANGED <<loaderVars, oneHotVars>>

\* run(load_best, retrain, del_logger): main up to `if not retrain`
\* (utils.set_seed and utils.Timer touch none of the state modelled here)
Run(lb, rt, dl) ==
    /\ pc = "idle"
    /\ nops < MaxOps
    /\ args' = [load_best |-> lb, retrain |-> rt, del_logger |-> dl]
    /\ logger' = TRUE
    /\ pc' = IF rt THEN "for" ELSE "load"
    /\ nops' = nops + 1
    /\ lastOp' = Op("run", FALSE, FALSE, FALSE, 0, Empty)
    /\ prev' = IF lastOp.op = "run" THEN call ELSE NoCall
    /\ call' = [NoCall EXCEPT !.valid = TRUE, !.lb = lb, !.rt = rt,
                              !.fromEmpty = (DOMAIN files = {}),
                              !.filesAtStart = files]
    /\ log' = <<>>
    /\ UNCHANGED <<epochs, start_epoch, records, optimizers, models, schedulers,
                   files, epoch, range_stop, is_best>>
    /\ UNCHANGED <<lastLoad, lastSaved, lastBestSaved>>
    /\ UNCHANGED <<loaderVars, oneHotVars>>

(***************************************************************************)
(* The statements of main                                                  *)
(***************************************************************************)
\* self.load()
MainLoad ==
    /\ pc = "load"
    /\ LET res == load(TState, files, FALSE)
       IN  /\ Restore(res.st)
           /\ lastLoad' = LoadRecord(FALSE, res)
           /\ IF res.raised
              THEN /\ Caught(-1)
                   /\ log' = Append(log, Ev("load", -1, FALSE, 0, schedulers))
              ELSE /\ pc' = "for"
                   /\ call' = [call EXCEPT !.loadTried = TRUE]
                   /\ log' = Append(log, Ev("load", -1, FALSE, res.st.epoch, schedulers))
                   /\ UNCHANGED <<args, epoch, range_stop, is_best>>
    /\ UNCHANGED <<epochs, logger, files>>
    /\ UNCHANGED <<nops, prev, lastOp, lastSaved, lastBestSaved>>
    /\ UNCHANGED <<loaderVars, oneHotVars>>

\* timer set-up and `for epoch in range(self.start_epoch, self.epochs)`
MainFor ==
    /\ pc = "for"
    /\ range_stop' = epochs
    /\ epoch' = start_epoch
    /\ pc' = IF in_range(start_epoch, epochs) THEN "train" ELSE "after"
    /\ call' = [call EXCEPT !.loopStart = start_epoch,
                            !.loopDone = ~in_range(start_epoch, epochs)]
    /\ UNCHANGED <<epochs, start_epoch, records, optimizers, models, schedulers,
                   logger, files, args, is_best>>
    /\ UNCHANGED <<nops, log, prev, lastLoad, lastOp, lastSaved, lastBestSaved>>
    /\ UNCHANGED <<loaderVars, oneHotVars>>

\* loss = self.train(epoch)
Train ==
    /\ pc = "train"
    /\ \/ /\ models' = train_models(epoch)
          /\ optimizers' = train_optimizers(epoch)
          /\ pc' = body_next("train")
          /\ UNCHANGED <<call, args, epoch, range_stop, is_best>>
       \/ \E applied \in BOOLEAN :
          /\ models' = IF applied THEN train_models(epoch) ELSE models
          /\ optimizers' = optimizers
          /\ Caught(epoch)
    /\ log' = Append(log, Ev("train", epoch, FALSE, 0, schedulers))
    /\ lastLoad' = NoLoad
    /\ UNCHANGED <<epochs, start_epoch, records, schedulers, logger, files>>
    /\ UNCHANGED <<nops, prev, lastOp, lastSaved, lastBestSaved>>
    /\ UNCHANGED <<loaderVars, oneHotVars>>

\* is_best = self.evaluate(epoch)
Evaluate ==
    /\ pc = "evaluate"
    /\ \/ \E result \in BOOLEAN :
          /\ is_best' = result
          /\ records' = evaluate_records(epoch, result)
          /\ pc' = body_next("evaluate")
          /\ call' = [call EXCEPT !.lastTrue = IF result THEN epoch ELSE @]
          /\ log' = Append(log, Ev("evaluate", epoch, result, 0, schedulers))
          /\ UNCHANGED <<args, epoch, range_stop>>
       \/ /\ records' = records
          /\ Caught(epoch)
          /\ log' = Append(log, Ev("evaluate", epoch, FALSE, 0, schedulers))
    /\ lastLoad' = NoLoad
    /\ UNCHANGED <<epochs, start_epoch, optimizers, models, schedulers, logger, files>>
    /\ UNCHANGED <<nops, prev, lastOp, lastSaved, lastBestSaved>>
    /\ UNCHANGED <<loaderVars, oneHotVars>>

\* timer.step(); self.save(is_best=is_best)
MainSave ==
    /\ pc = "save"
    /\ files' = save(is_best)
    /\ lastSaved' = [valid |-> TRUE, sd |-> state_dict]
    /\ lastBestSaved' = IF is_best THEN [valid |-> TRUE, sd |-> state_dict]
                        ELSE lastBestSaved
    /\ pc' = body_next("save")
    /\ log' = Append(log, Ev("save", epoch, is_best, FileEpoch(files', "latest"),
                             FileSchedulers(files', "latest")))
    /\ UNCHANGED <<epochs, start_epoch, records, optimizers, models, schedulers,
                   logger, args, epoch, range_stop, is_best>>
    /\ UNCHANGED <<nops, call, prev, lastLoad, lastOp>>
    /\ UNCHANGED <<loaderVars, oneHotVars>>

\* self.start_epoch += 1
MainIncrement ==
    /\ pc = "incr"
    /\ start_epoch' = increment(start_epoch)
    /\ pc' = body_next("incr")
    /\ log' = Append(log, Ev("incr", epoch, FALSE, start_epoch', schedulers))
    /\ lastLoad' = NoLoad
    /\ UNCHANGED <<epochs, records, optimizers, models, schedulers, logger, files,
                   args, epoch, range_stop, is_best>>
    /\ UNCHANGED <<nops, call, prev, lastOp, lastSaved, lastBestSaved>>
    /\ UNCHANGED <<loaderVars, oneHotVars>>

\* self.scheduler_step(), then the range iterator yields the next index or stops
MainSchedulerStep ==
    /\ pc = "sched"
    /\ schedulers' = scheduler_step
    /\ epoch' = IF in_range(epoch + 1, range_stop) THEN epoch + 1 ELSE epoch
    /\ pc' = IF in_range(epoch + 1, range_stop) THEN "train" ELSE "after"
    /\ call' = [call EXCEPT !.loopDone = ~in_range(epoch + 1, range_stop)]
    /\ log' = Append(log, Ev("sched", epoch, FALSE, 0, schedulers))
    /\ lastLoad' = NoLoad
    /\ UNCHANGED <<epochs, start_epoch, records, optimizers, models, logger, files,
                   args, range_stop, is_best>>
    /\ UNCHANGED <<nops, prev, lastOp, lastSaved, lastBestSaved>>
    /\ UNCHANGED <<loaderVars, oneHotVars>>

\* `if load_best: self.load(is_best=True) ...` and `if del_logger: ...`
MainAfter ==
    /\ pc = "after"
    /\ IF args.load_best
       THEN LET res == load(TState, files, TRUE)
            IN  /\ Restore(res.st)
                /\ lastLoad' = LoadRecord(TRUE, res)
                /\ log' = Append(log, Ev("load_best", -1, TRUE, res.st.epoch, schedulers))
                /\ IF res.raised
                   THEN Caught(-1) /\ logger' = logger
                   ELSE /\ Return
                        /\ call' = [call EXCEPT !.finished = TRUE]
                        /\ logger' = IF args.del_logger THEN FALSE ELSE logger
       ELSE /\ UNCHANGED <<start_epoch, records, optimizers, models, schedulers,
                           lastLoad, log>>
            /\ Return
            /\ call' = [call EXCEPT !.finished = TRUE]
            /\ logger' = IF args.del_logger THEN FALSE ELSE logger
    /\ UNCHANGED <<epochs, files>>
    /\ UNCHANGED <<nops, prev, lastOp, lastSaved, lastBestSaved>>
    /\ UNCHANGED <<loaderVars, oneHotVars>>

Next ==
    \/ \E b \in BOOLEAN : Save(b)
    \/ \E b \in BOOLEAN : Load(b)
    \/ \E lb \in BOOLEAN, rt \in BOOLEAN, dl \in BOOLEAN : Run(lb, rt, dl)
    \/ MainLoad
    \/ MainFor
    \/ Train
    \/ Evaluate
    \/ MainSave
    \/ MainIncrement
    \/ MainSchedulerStep
    \/ MainAfter

Spec == Init /\ [][Next]_vars

(***************************************************************************)
(* BaseTrainer.preprocessing                                               *)
(***************************************************************************)
DatasetKeys == {"a", "b"}

\* torch.utils.data.DataLoader(dataset, batch_size=..., shuffle=..., **kwargs);
\* an option that is not passed takes the library's default
DataLoader(registry, key, shuffle, kwargs) ==
    [dataset     |-> <<registry, key>>,
     shuffle     |-> shuffle,
     drop_last   |-> IF "drop_last" \in DOMAIN kwargs THEN kwargs.drop_last ELSE FALSE,
     num_workers |-> IF "num_workers" \in DOMAIN kwargs THEN kwargs.num_workers ELSE 0,
     pin_memory  |-> IF "pin_memory" \in DOMAIN kwargs THEN kwargs.pin_memory ELSE FALSE]

train_kwargs(available) ==
    IF available THEN [num_workers |-> 1, drop_last |-> TRUE, pin_memory |-> TRUE]
    ELSE Empty

eval_kwargs(available) ==
    IF available THEN [num_workers |-> 1, drop_last |-> FALSE, pin_memory |-> TRUE]
    ELSE Empty

\* the shuffle argument of the three loops
datasets_shuffle   == TRUE
train_sets_shuffle == TRUE
eval_sets_shuffle  == TRUE

\* `for key in registry.keys(): self.dataloaders[key] = DataLoader(...)`
build_loaders(loaders, registry, keys, shuffle, kwargs) ==
    [k \in (DOMAIN loaders) \cup keys |->
        IF k \in keys THEN DataLoader(registry, k, shuffle, kwargs) ELSE loaders[k]]

preprocessing ==
    LET d1 == build_loaders(dataloaders, "datasets", datasets, datasets_shuffle,
                            train_kwargs(cuda))
        d2 == build_loaders(d1, "train_sets", train_sets, train_sets_shuffle,
                            train_kwargs(cuda))
    IN  build_loaders(d2, "eval_sets", eval_sets, eval_sets_shuffle, eval_kwargs(cuda))

InitLoaders ==
    /\ cuda \in BOOLEAN
    /\ datasets \in SUBSET DatasetKeys
    /\ train_sets \in SUBSET DatasetKeys
    /\ eval_sets \in SUBSET DatasetKeys
    /\ dataloaders = Empty
    /\ nprep = 0
    /\ prepared = FALSE
    /\ epochs = 0
    /\ files = Empty
    /\ InitTrainerFields
    /\ InitHist
    /\ InitOneHotIdle

Preprocessing ==
    /\ nprep < MaxPrep
    /\ dataloaders' = preprocessing
    /\ nprep' = nprep + 1
    /\ prepared' = TRUE
    /\ UNCHANGED <<cuda, datasets, train_sets, eval_sets>>
    /\ UNCHANGED <<trainerVars, histVars, oneHotVars>>

\* the subclass registers one more evaluation set
RegisterEvalSet(key) ==
    /\ key \notin eval_sets
    /\ eval_sets' = eval_sets \cup {key}
    /\ prepared' = FALSE
    /\ UNCHANGED <<cuda, datasets, train_sets, dataloaders, nprep>>
    /\ UNCHANGED <<trainerVars, histVars, oneHotVars>>

NextLoaders ==
    \/ Preprocessing
    \/ \E key \in DatasetKeys : RegisterEvalSet(key)

SpecLoaders == InitLoaders /\ [][NextLoaders]_vars

(***************************************************************************)
(* utils.one_hot_encode                                                    *)
(***************************************************************************)
RECURSIVE SeqMin(_)
SeqMin(s) == IF Len(s) = 1 THEN s[1]
             ELSE IF s[1] < SeqMin(Tail(s)) THEN s[1] ELSE SeqMin(Tail(s))

RECURSIVE SeqMax(_)
SeqMax(s) == IF Len(s) = 1 THEN s[1]
             ELSE IF s[1] > SeqMax(Tail(s)) THEN s[1] ELSE SeqMax(Tail(s))

\* faulty variant: only the upper end of the range is asserted
label_range_upper_only(l, n) == SeqMax(l) < n

\* `np.min(labels) >= 0 and np.max(labels) < n_labels`
label_range(l, n) == SeqMin(l) >= 0 /\ SeqMax(l) < n

\* numpy resolves an index j on an axis of length n: a negative j counts from
\* the end, anything outside -n..n-1 is an IndexError (-1 here)
axis_index(j, n) == IF 0 <= j /\ j < n THEN j
                    ELSE IF -n <= j /\ j < 0 THEN j + n
                    ELSE -1

\* y = np.zeros([labels.size, n_labels]); y[range(labels.size), labels] = 1
one_hot_rows(l, n) ==
    [i \in 1..Len(l) |-> [c \in 0..(n - 1) |-> IF c = axis_index(l[i], n) THEN 1 ELSE 0]]

one_hot_encode(l, n) ==
    IF Len(l) = 0 THEN [status |-> "ValueError", rows |-> <<>>]
    ELSE IF ~label_range(l, n) THEN [status |-> "AssertionError", rows |-> <<>>]
    ELSE IF \E i \in 1..Len(l) : axis_index(l[i], n) = -1
         THEN [status |-> "IndexError", rows |-> <<>>]
    ELSE [status |-> "ok", rows |-> one_hot_rows(l, n)]

RECURSIVE SeqsUpTo(_, _)
SeqsUpTo(S, n) == IF n = 0 THEN {<<>>}
                  ELSE SeqsUpTo(S, n - 1) \cup
                       {Append(q, x) : q \in {r \in SeqsUpTo(S, n - 1) : Len(r) = n - 1},
                                       x \in S}

InitOneHot ==
    /\ labels \in SeqsUpTo(-1..MaxLabel, MaxLen)
    /\ n_labels \in 0..(MaxLabel + 1)
    /\ y = [status |-> "unset", rows |-> <<>>]
    /\ epochs = 0
    /\ files = Empty
    /\ InitTrainerFields
    /\ InitHist
    /\ InitLoadersIdle

OneHotEncode ==
    /\ y.status = "unset"
    /\ y' = one_hot_encode(labels, n_labels)
    /\ UNCHANGED <<labels, n_labels>>
    /\ UNCHANGED <<trainerVars, histVars, loaderVars>>

NextOneHot == OneHotEncode

SpecOneHot == InitOneHot /\ [][NextOneHot]_vars

(***************************************************************************)
(* Properties                                                              *)
(***************************************************************************)
Latest == files["latest"]
Best   == files["best"]
HasLatest == "latest" \in DOMAIN files
HasBest   == "best" \in DOMAIN files

BodyOps == {"train", "evaluate", "save", "incr", "sched"}
IsBodyEvent(ev) == ev.op \in BodyOps
Body == SelectSeq(log, IsBodyEvent)
Count(op) == Cardinality({i \in DOMAIN log : log[i].op = op})
BodyOrder == <<"train", "evaluate", "save", "incr", "sched">>

\* the Trainer is idle right after a run() call
AfterRun == pc = "idle" /\ lastOp.op = "run" /\ call.valid /\ call.finished

\* C1: save(is_best=b) followed by load(is_best=False), and by load(is_best=True)
\* when b is true, leaves the epoch counter one past the value save was called
\* with and the records equal to the records save was called with.
C1_SaveLoadRoundTrip ==
    (lastOp.op = "load" /\ lastOp.sv /\ (lastOp.b => lastOp.sb))
        => /\ start_epoch = lastOp.e + 1
           /\ records = lastOp.r
           /\ ~lastLoad.raised

C1_Witness ==
    /\ lastOp.op = "load" /\ lastOp.sv /\ lastOp.b /\ lastOp.sb
    /\ lastOp.e >= 1
    /\ lastOp.r # Empty
    /\ start_epoch = lastOp.e + 1

\* "latest" is the record of the most recent save and "best" the record of the
\* most recent save(is_best=True); without such a save there is no "best".
SnapshotInv ==
    /\ lastSaved.valid => (HasLatest /\ Latest = lastSaved.sd)
    /\ lastBestSaved.valid => (HasBest /\ Best = lastBestSaved.sd)
    /\ ~lastBestSaved.valid => ~HasBest

CleanRunFromEmpty == AfterRun /\ ~call.raised /\ call.fromEmpty

BestAfterRun ==
    IF call.lastTrue >= 0 THEN HasBest /\ Best.epoch = call.lastTrue + 1
    ELSE ~HasBest

\* C2 as stated: the snapshots, and after an exception-free run() with epoch
\* limit N from an empty directory latest.epoch = N and best.epoch = k + 1 for the
\* last epoch k whose evaluate returned true (no "best" when there is none).
C2_Original ==
    /\ SnapshotInv
    /\ CleanRunFromEmpty => (HasLatest /\ Latest.epoch = epochs /\ BestAfterRun)

\* C2 amended: the same for an epoch limit N >= 1; with N = 0 the loop body never
\* runs and the directory stays empty.
C2_Amended ==
    /\ SnapshotInv
    /\ (CleanRunFromEmpty /\ epochs >= 1)
          => (HasLatest /\ Latest.epoch = epochs /\ BestAfterRun)
    /\ (CleanRunFromEmpty /\ epochs = 0) => DOMAIN files = {}

C2_Witness ==
    /\ CleanRunFromEmpty
    /\ epochs = 2
    /\ call.lastTrue = 0
    /\ Best.epoch = 1
    /\ Latest.epoch = 2
    /\ Best # Latest

\* C3: load of an absent file returns normally and changes neither the epoch
\* counter, the records nor any model, optimizer or scheduler state.
C3_LoadAbsentNoOp ==
    (lastLoad.valid /\ ~lastLoad.found)
        => (~lastLoad.raised /\ TState = lastLoad.before)

C3_Witness ==
    /\ lastLoad.valid /\ ~lastLoad.found /\ lastLoad.b
    /\ HasLatest
    /\ start_epoch >= 1
    /\ records # Empty

\* the epoch index at which the call before this one raised (-1: it did not)
FailedAt == IF prev.valid THEN prev.raisedAt ELSE -1

\* what run() leaves behind when train or evaluate raised at epoch index k
AfterFailure ==
    (AfterRun /\ call.raisedAt >= 0)
        => /\ start_epoch = call.raisedAt
           /\ call.raisedAt > call.loopStart
                 => (HasLatest /\ Latest.epoch = call.raisedAt)
           /\ Count("save") = call.raisedAt - call.loopStart
           /\ Count("incr") = call.raisedAt - call.loopStart
           /\ Count("sched") = call.raisedAt - call.loopStart
           /\ log[Len(log)].op \in {"train", "evaluate"}
           /\ log[Len(log)].i = call.raisedAt

\* a main(retrain=False) that follows the failed call has reached its loop
ResumedAfterFailure ==
    call.valid /\ ~call.rt /\ FailedAt >= 0 /\ call.loopStart >= 0

\* C4 as stated: the failed call leaves counter k, "latest" of epoch k when an
\* epoch was saved, nothing done for epoch k or later, and the next
\* main(retrain=False) starts its loop at k.
C4_Original ==
    /\ AfterFailure
    /\ ResumedAfterFailure => call.loopStart = FailedAt

\* C4 amended: the next main(retrain=False) starts its loop at the epoch field of
\* the "latest" file when one exists and at k otherwise; that is k whenever the
\* failed call saved an epoch or had itself been started with retrain=False.
C4_Amended ==
    /\ AfterFailure
    /\ ResumedAfterFailure =>
          /\ call.loopStart = IF "latest" \in DOMAIN call.filesAtStart
                              THEN call.filesAtStart["latest"].epoch
                              ELSE FailedAt
          /\ (FailedAt > prev.loopStart \/ ~prev.rt) => call.loopStart = FailedAt

C4_Witness ==
    /\ ResumedAfterFailure
    /\ prev.rt
    /\ FailedAt = prev.loopStart
    /\ call.loopStart # FailedAt

C4_WitnessSaved ==
    /\ AfterRun /\ call.raisedAt = 1 /\ call.loopStart = 0
    /\ Latest.epoch = 1

\* registered names the checkpoint read by the last load has no entry for
MissingIn(order, entries) == {n \in Range(order) : n \notin DOMAIN entries}
MissingOptimizers == MissingIn(optimizer_names, lastLoad.ckpt.optim)
MissingModels     == MissingIn(model_names, lastLoad.ckpt.model)
MissingSchedulers == MissingIn(scheduler_names, lastLoad.ckpt.scheduler)

\* C5 as stated: load raises exactly for a missing optimizer or scheduler name; a
\* missing model name is skipped and that model keeps its state.
C5_Original ==
    (lastLoad.valid /\ lastLoad.found)
        => /\ lastLoad.raised <=> (MissingOptimizers \cup MissingSchedulers # {})
           /\ \A n \in MissingModels : models[n] = lastLoad.before.model[n]

\* C5 amended: load raises exactly when a registered optimizer, model or scheduler
\* name has no entry in the checkpoint (the epoch counter and the records are
\* overwritten by then, and a model without an entry keeps its state); entries
\* for names that are not registered are ignored; when load returns, optimizers
\* and schedulers hold the checkpoint's state and each parameter key of a model
\* holds the checkpoint's value if the entry has that key and its prior value
\* otherwise.
C5_Amended ==
    (lastLoad.valid /\ lastLoad.found)
        => /\ lastLoad.raised <=>
                 (MissingOptimizers \cup MissingModels \cup MissingSchedulers # {})
           /\ start_epoch = lastLoad.ckpt.epoch
           /\ records = lastLoad.ckpt.records
           /\ \A n \in MissingModels : models[n] = lastLoad.before.model[n]
           /\ ~lastLoad.raised =>
                 /\ \A n \in DOMAIN optimizers : optimizers[n] = lastLoad.ckpt.optim[n]
                 /\ \A n \in DOMAIN schedulers :
                       schedulers[n] = lastLoad.ckpt.scheduler[n]
                 /\ \A n \in DOMAIN models : \A k \in DOMAIN models[n] :
                       models[n][k] = IF k \in DOMAIN lastLoad.ckpt.model[n]
                                      THEN lastLoad.ckpt.model[n][k]
                                      ELSE lastLoad.before.model[n][k]

C5_Witness ==
    /\ lastLoad.valid /\ lastLoad.found /\ lastLoad.raised
    /\ MissingModels # {}
    /\ MissingOptimizers \cup MissingSchedulers = {}
    /\ start_epoch # lastLoad.before.epoch

C5_WitnessTolerant ==
    /\ lastLoad.valid /\ lastLoad.found /\ ~lastLoad.raised
    /\ DOMAIN lastLoad.ckpt.model["net"] # DOMAIN models["net"]
    /\ DOMAIN lastLoad.ckpt.optim # DOMAIN optimizers
    /\ models["net"]["w"] # models["net"]["b"]

\* C6 as stated: the epoch counter never decreases and changes only by the
\* increment of one that ends an epoch.
C6_Original ==
    [][/\ start_epoch' >= start_epoch
       /\ start_epoch' # start_epoch => (pc = "incr" /\ start_epoch' = start_epoch + 1)
      ]_vars

\* C6 amended: the counter is a non-negative integer; the loop changes it only by
\* the increment of one after an epoch's save; load sets it to the epoch field of
\* the checkpoint it read, which may be lower or higher by any amount; nothing
\* else changes it.
C6_Amended ==
    [][/\ start_epoch' \in Nat
       /\ pc = "incr" => start_epoch' = start_epoch + 1
       /\ (start_epoch' # start_epoch /\ pc # "incr") =>
             /\ pc \in {"idle", "load", "after"}
             /\ lastLoad'.valid /\ lastLoad'.found
             /\ lastLoad'.before.epoch = start_epoch
             /\ start_epoch' = lastLoad'.ckpt.epoch
      ]_vars

C6_Witness ==
    /\ lastLoad.valid /\ lastLoad.found /\ lastLoad.b
    /\ start_epoch < lastLoad.before.epoch
    /\ Count("incr") = 2

\* a second main call that follows a main call whose loop reached the limit
Reentered == lastOp.op = "run" /\ call.valid /\ prev.valid /\ prev.loopDone

NoOpLoop ==
    /\ \A i \in DOMAIN log : log[i].op \notin BodyOps
    /\ files = call.filesAtStart
    /\ pc \in {"idle", "load", "for", "after"}

\* C7 as stated: the second main call runs no train, evaluate, save or
\* scheduler_step and leaves both files as they are, whatever load_best and
\* retrain were in either call.
C7_Original == Reentered => NoOpLoop

\* C7 amended: provided the first call executed at least one epoch, the same for
\* every combination of load_best and retrain except load_best in the first call
\* together with retrain in the second.
C7_Amended ==
    (Reentered /\ prev.loopStart < epochs /\ ~(prev.lb /\ call.rt)) => NoOpLoop

C7_Witness ==
    /\ Reentered /\ prev.loopStart < epochs /\ prev.lb /\ ~call.rt
    /\ prev.lastTrue = 0
    /\ epochs = 2
    /\ AfterRun
    /\ NoOpLoop

\* C8: after preprocessing every key of eval_sets has a loader built from
\* eval_sets that neither shuffles nor drops the last batch, every loader built
\* from datasets or train_sets shuffles, with and without an accelerator; a
\* second call leaves the loaders as they are.
C8_EvalNotShuffled ==
    /\ prepared =>
          \A k \in eval_sets :
             /\ k \in DOMAIN dataloaders
             /\ dataloaders[k].dataset = <<"eval_sets", k>>
             /\ ~dataloaders[k].shuffle
             /\ ~dataloaders[k].drop_last
    /\ \A k \in DOMAIN dataloaders :
          dataloaders[k].dataset[1] \in {"datasets", "train_sets"}
             => dataloaders[k].shuffle
    /\ prepared => preprocessing = dataloaders

\* C9: a label array with a negative value or a value >= n_labels fails the
\* precondition; a valid non-empty array gives labels.size rows of n_labels
\* columns, row i holding a single 1, at column labels[i].
C9_OneHot ==
    (y.status # "unset" /\ labels # <<>>) =>
        IF \E i \in DOMAIN labels : labels[i] < 0 \/ labels[i] >= n_labels
        THEN y.status = "AssertionError"
        ELSE /\ y.status = "ok"
             /\ Len(y.rows) = Len(labels)
             /\ \A i \in DOMAIN labels :
                   /\ DOMAIN y.rows[i] = 0..(n_labels - 1)
                   /\ \A c \in DOMAIN y.rows[i] :
                         y.rows[i][c] = IF c = labels[i] THEN 1 ELSE 0
                   /\ Cardinality({c \in DOMAIN y.rows[i] : y.rows[i][c] = 1}) = 1

C9_Witness ==
    /\ y.status = "ok"
    /\ labels = <<2, 0, 1>>
    /\ n_labels = 3
    /\ y.rows[1][2] = 1 /\ y.rows[2][0] = 1 /\ y.rows[3][1] = 1

C9_WitnessRejected ==
    /\ y.status = "AssertionError"
    /\ labels = <<0, -1>>

\* C10: the loop takes the indices from the epoch counter at loop entry up to the
\* limit (exclusive) once each and in increasing order; within an epoch the calls
\* are train(i), evaluate(i), save(is_best = evaluate's result), the increment,
\* scheduler_step; the record saved in epoch i has epoch field i + 1 and the
\* scheduler state that scheduler_step then advances; load(is_best=False) comes
\* before the first train exactly when retrain is not set.
C10_EpochOrder ==
    call.valid =>
        /\ pc # "load" => ((log # <<>> /\ log[1].op = "load") <=> ~call.rt)
        /\ \A j \in DOMAIN log : log[j].op = "load" => j = 1
        /\ \A j \in DOMAIN log : log[j].op = "load_best" => j = Len(log)
        /\ \A j \in DOMAIN Body :
              /\ Body[j].op = BodyOrder[((j - 1) % 5) + 1]
              /\ Body[j].i = call.loopStart + ((j - 1) \div 5)
              /\ Body[j].i < epochs
              /\ Body[j].op = "save" =>
                    /\ Body[j].flag = Body[j - 1].flag
                    /\ Body[j].ep = Body[j].i + 1
              /\ Body[j].op = "incr" => Body[j].ep = Body[j].i + 1
              /\ Body[j].op = "sched" => Body[j].sch = Body[j - 2].sch
        /\ (call.finished /\ ~call.raised /\ call.loopStart < epochs)
              => Len(Body) = 5 * (epochs - call.loopStart)
        /\ (call.loopDone /\ call.loopStart >= epochs) => Body = <<>>

C10_Witness ==
    /\ AfterRun /\ ~call.raised /\ ~call.rt
    /\ call.loopStart = 0
    /\ Len(Body) = 10
    /\ Body[3].flag /\ ~Body[8].flag
    /\ Body[8].sch # Body[3].sch

====
